---- MODULE Spec2Model ----
(***************************************************************************)
(* mycat (src/mycat/mycat.cpp): argument parsing, the per-line transformer  *)
(* and the multi-source stream processor, as a state machine.               *)
(*                                                                          *)
(* Strings are sequences of one-character strings.  The environment (the    *)
(* command line, the file system, the contents of the streams) is drawn     *)
(* step by step: each argument when the parser reaches it, each outcome of  *)
(* stat/access/open when it is called, each line when getline returns it.   *)
(***************************************************************************)
EXTENDS Integers, Sequences, FiniteSets

\* ---------------------------------------------------------------- bounds
MaxFiles == 3        \* most file names on a command line
MaxLines == 3        \* most lines getline returns in one run
MaxLineLen == 1      \* most characters of one line read from a source
MaxTLen == 3         \* most characters of a line handed to transform_line alone
MaxDigits == 8       \* the counter values tried on their own go up to 10^MaxDigits
MaxNSteps == 2       \* most lines read from one of those counter values on

\* ------------------------------------------------------------ characters
TAB == "\t"
NL == "\n"
Chars == {"a", TAB}
Digit == <<"0", "1", "2", "3", "4", "5", "6", "7", "8", "9">>

SeqsUpTo(S, n) == UNION {[1..k -> S] : k \in 0..n}

Lines == SeqsUpTo(Chars, MaxLineLen)

TChars == Chars \cup {"b"}
TLines == SeqsUpTo(TChars, MaxTLen)

\* The arguments the command line is made of.
StdinName == <<"-">>
DashDash == <<"-", "-">>
FlagChars == {"n", "b", "E", "T", "s", "h", "x"}
FlagArgs ==
    {<<"-", c>> : c \in FlagChars} \cup {<<"-", "n", "b">>, <<"-", "s", "x">>}
\* File names: "-" (standard input) and a plain name.
FileArgs == {StdinName, <<"f">>}

\* ------------------------------------------------------------------ state
VARIABLES
    pc,                  \* where main is: "parse", "loop", "open", "read", "usage", "done"
    opts,                \* struct Options
    given,               \* the options as set by the flags, before -b overrides -n
    stop_parsing_flags,  \* parse_arguments' local
    files,               \* std::vector<std::string> files
    idx,                 \* position of the range-for over files (1-based)
    line_number,         \* main's int line_number
    last_was_blank,      \* main's bool last_was_blank
    had_errors,          \* main's bool had_errors
    cin_state,           \* std::cin: "good", "eof" or "bad" (shared by every "-")
    stdout,              \* characters written to std::cout
    stderr,              \* diagnostics written to std::cerr
    log,                 \* one record per line getline returned
    status,              \* how each source processed so far ended
    exit_code,           \* main's return value, -1 while running
    held,                \* positions in files whose std::ifstream is open
    t_pc,                \* transform_line on its own: "idle", "start", "once", "twice"
    t_line,              \* the line handed to transform_line
    t_first,             \* the options of the first call
    t_second,            \* the options of the second call
    t_once,              \* transform_line(t_line, t_first)
    t_twice,             \* transform_line(t_once, t_second)
    n_pc,                \* the loop body from a later point of a run: "idle", "run"
    n_opts,              \* the options of that run
    n_number,            \* its line_number
    n_blank,             \* its last_was_blank
    n_log                \* one record per line read from that point on

svars == <<pc, opts, given, stop_parsing_flags, files, idx, line_number,
           last_was_blank, had_errors, cin_state, stdout, stderr, log,
           status, exit_code, held>>

tvars == <<t_pc, t_line, t_first, t_second, t_once, t_twice>>

nvars == <<n_pc, n_opts, n_number, n_blank, n_log>>

vars == <<svars, tvars, nvars>>

\* ------------------------------------------------------- struct Options
DefaultOptions ==
    [number_lines |-> FALSE, number_non_blank |-> FALSE, show_ends |-> FALSE,
     show_tabs |-> FALSE, squeeze_blanks |-> FALSE]

\* ------------------------------------------------------ parse_arguments
\* The switch over one flag character: the options after it, and whether
\* parsing goes on (FALSE: 'h' or an unknown character, return false).
FlagSwitch(o, c) ==
    CASE c = "n" -> [ok |-> TRUE, o |-> [o EXCEPT !.number_lines = TRUE]]
      [] c = "b" -> [ok |-> TRUE, o |-> [o EXCEPT !.number_non_blank = TRUE]]
      [] c = "E" -> [ok |-> TRUE, o |-> [o EXCEPT !.show_ends = TRUE]]
      [] c = "T" -> [ok |-> TRUE, o |-> [o EXCEPT !.show_tabs = TRUE]]
      [] c = "s" -> [ok |-> TRUE, o |-> [o EXCEPT !.squeeze_blanks = TRUE]]
      [] OTHER -> [ok |-> FALSE, o |-> o]

\* The inner loop over the characters arg[j], j = 1 .. length-1 (0-based),
\* here positions j = 2 .. Len(arg).
RECURSIVE ParseFlags(_, _, _)
ParseFlags(arg, j, o) ==
    IF j > Len(arg) THEN [ok |-> TRUE, o |-> o]
    ELSE LET r == FlagSwitch(o, arg[j])
         IN  IF r.ok THEN ParseFlags(arg, j + 1, r.o) ELSE r

IsFlagArg(arg) == ~stop_parsing_flags /\ arg[1] = "-" /\ Len(arg) > 1

\* A parse_arguments without the override.
OverrideNumbering_None(o) == o

\* "-b should override -n"
OverrideNumbering(o) ==
    IF o.number_non_blank THEN [o EXCEPT !.number_lines = FALSE] ELSE o

\* ------------------------------------------------------- transform_line
\* A tab loop that writes the two characters the other way round.
RECURSIVE ShowTabs_Swapped(_)
ShowTabs_Swapped(s) ==
    IF s = <<>> THEN <<>>
    ELSE (IF Head(s) = TAB THEN <<"I", "^">> ELSE <<Head(s)>>)
             \o ShowTabs_Swapped(Tail(s))

\* The loop over the characters of the line.
RECURSIVE ShowTabs(_)
ShowTabs(s) ==
    IF s = <<>> THEN <<>>
    ELSE (IF Head(s) = TAB THEN <<"^", "I">> ELSE <<Head(s)>>) \o ShowTabs(Tail(s))

\* A transform_line that ends every line with '$'.
transform_line_AlwaysEnd(line, o) ==
    (IF o.show_tabs THEN ShowTabs(line) ELSE line) \o <<"$">>

transform_line(line, o) ==
    LET result == IF o.show_tabs THEN ShowTabs(line) ELSE line
    IN  IF o.show_ends THEN result \o <<"$">> ELSE result

\* ------------------------------------------ std::setw(6) << std::right
RECURSIVE Decimal(_)
Decimal(n) ==
    IF n < 10 THEN <<Digit[n + 1]>>
    ELSE Decimal(n \div 10) \o <<Digit[(n % 10) + 1]>>

FieldWidth == 6

RECURSIVE Spaces(_)
Spaces(k) == IF k <= 0 THEN <<>> ELSE <<" ">> \o Spaces(k - 1)

\* A field that keeps only the last FieldWidth digits.
NumberField_Truncated(n) ==
    LET d == Decimal(n)
    IN  IF Len(d) > FieldWidth
        THEN SubSeq(d, Len(d) - FieldWidth + 1, Len(d)) \o <<" ">>
        ELSE Spaces(FieldWidth - Len(d)) \o d \o <<" ">>

NumberField(n) ==
    Spaces(FieldWidth - Len(Decimal(n))) \o Decimal(n) \o <<" ">>

\* ------------------------------------- process_file: the body of the loop
\* st = [line_number, last_was_blank]; the result adds what the iteration
\* wrote (chunk), whether the line got past the squeeze test (kept) and the
\* number printed (num, 0 when none).
\* A blank test that takes a line of spaces and tabs for blank.
IsBlank_Whitespace(line) == \A i \in 1..Len(line) : line[i] \in {" ", TAB}

IsBlank(line) == Len(line) = 0

\* A squeeze test that does not look at the option.
Squeezed_IgnoreOption(o, line, lwb) == IsBlank(line) /\ lwb

Squeezed(o, line, lwb) == o.squeeze_blanks /\ IsBlank(line) /\ lwb

\* A numbering test that lets -b number blank lines too.
Numbered_BlanksToo(o, line) == o.number_lines \/ o.number_non_blank

Numbered(o, line) ==
    o.number_lines \/ (o.number_non_blank /\ ~IsBlank(line))

\* A loop body that tracks blank lines only when it squeezes them.
ProcessLine_TrackOnlyWhenSqueezing(o, st, line) ==
    IF Squeezed(o, line, st.last_was_blank)
    THEN [line_number |-> st.line_number, last_was_blank |-> st.last_was_blank,
          chunk |-> <<>>, kept |-> FALSE, num |-> 0]
    ELSE LET n == Numbered(o, line)
         IN  [line_number |-> IF n THEN st.line_number + 1 ELSE st.line_number,
              last_was_blank |-> IF o.squeeze_blanks THEN IsBlank(line)
                                 ELSE st.last_was_blank,
              chunk |-> (IF n THEN NumberField(st.line_number) ELSE <<>>)
                            \o transform_line(line, o) \o <<NL>>,
              kept |-> TRUE,
              num |-> IF n THEN st.line_number ELSE 0]

\* A loop body that counts every line it writes, numbered or not.
ProcessLine_CountsUnnumbered(o, st, line) ==
    IF Squeezed(o, line, st.last_was_blank)
    THEN [line_number |-> st.line_number, last_was_blank |-> st.last_was_blank,
          chunk |-> <<>>, kept |-> FALSE, num |-> 0]
    ELSE LET n == Numbered(o, line)
         IN  [line_number |-> st.line_number + 1,
              last_was_blank |-> IsBlank(line),
              chunk |-> (IF n THEN NumberField(st.line_number) ELSE <<>>)
                            \o transform_line(line, o) \o <<NL>>,
              kept |-> TRUE,
              num |-> IF n THEN st.line_number ELSE 0]

\* A loop body that counts a line before the squeeze test drops it.
ProcessLine_CountsDiscarded(o, st, line) ==
    IF Squeezed(o, line, st.last_was_blank)
    THEN [line_number |-> IF Numbered(o, line) THEN st.line_number + 1
                          ELSE st.line_number,
          last_was_blank |-> st.last_was_blank,
          chunk |-> <<>>, kept |-> FALSE, num |-> 0]
    ELSE LET n == Numbered(o, line)
         IN  [line_number |-> IF n THEN st.line_number + 1 ELSE st.line_number,
              last_was_blank |-> IsBlank(line),
              chunk |-> (IF n THEN NumberField(st.line_number) ELSE <<>>)
                            \o transform_line(line, o) \o <<NL>>,
              kept |-> TRUE,
              num |-> IF n THEN st.line_number ELSE 0]

ProcessLine(o, st, line) ==
    IF Squeezed(o, line, st.last_was_blank)
    THEN [line_number |-> st.line_number, last_was_blank |-> st.last_was_blank,
          chunk |-> <<>>, kept |-> FALSE, num |-> 0]
    ELSE LET n == Numbered(o, line)
         IN  [line_number |-> IF n THEN st.line_number + 1 ELSE st.line_number,
              last_was_blank |-> IsBlank(line),
              chunk |-> (IF n THEN NumberField(st.line_number) ELSE <<>>)
                            \o transform_line(line, o) \o <<NL>>,
              kept |-> TRUE,
              num |-> IF n THEN st.line_number ELSE 0]

\* ------------------------------------------------------------------- Init
SInit ==
    /\ pc = "parse"
    /\ opts = DefaultOptions
    /\ given = DefaultOptions
    /\ stop_parsing_flags = FALSE
    /\ files = <<>>
    /\ idx = 1
    /\ line_number = 1
    /\ last_was_blank = FALSE
    /\ had_errors = FALSE
    /\ cin_state = "good"
    /\ stdout = <<>>
    /\ stderr = <<>>
    /\ log = <<>>
    /\ status = <<>>
    /\ exit_code = -1
    /\ held = {}

TIdle ==
    /\ t_pc = "idle"
    /\ t_line = <<>>
    /\ t_first = DefaultOptions
    /\ t_second = DefaultOptions
    /\ t_once = <<>>
    /\ t_twice = <<>>

NIdle ==
    /\ n_pc = "idle"
    /\ n_opts = DefaultOptions
    /\ n_number = 1
    /\ n_blank = FALSE
    /\ n_log = <<>>

Init == SInit /\ TIdle /\ NIdle

Diagnostic(name, msg) == [src |-> name, msg |-> msg]

\* -------------------------------- parse_arguments, one argv[i] per step
\* "--": stop parsing flags.
ParseDashDash ==
    /\ pc = "parse"
    /\ stop_parsing_flags' = TRUE
    /\ UNCHANGED tvars
    /\ UNCHANGED nvars
    /\ UNCHANGED <<held, pc, opts, given, files, idx, line_number, last_was_blank,
                   had_errors, cin_state, stdout, stderr, log, status, exit_code>>

\* A flag argument whose characters are all options.
ParseFlagsOk ==
    /\ pc = "parse"
    /\ \E arg \in FlagArgs :
          /\ IsFlagArg(arg)
          /\ ParseFlags(arg, 2, opts).ok
          /\ opts' = ParseFlags(arg, 2, opts).o
    /\ UNCHANGED tvars
    /\ UNCHANGED nvars
    /\ UNCHANGED <<held, pc, given, stop_parsing_flags, files, idx, line_number,
                   last_was_blank, had_errors, cin_state, stdout, stderr, log,
                   status, exit_code>>

\* A main that prints the usage and goes on to the files.
ParseFlagsFail_NoReturn ==
    /\ pc = "parse"
    /\ \E arg \in FlagArgs :
          /\ IsFlagArg(arg)
          /\ ~ParseFlags(arg, 2, opts).ok
          /\ opts' = ParseFlags(arg, 2, opts).o
    /\ stderr' = Append(stderr, Diagnostic(<<>>, "usage"))
    /\ files' = IF files = <<>> THEN <<StdinName>> ELSE files
    /\ pc' = "loop"
    /\ UNCHANGED tvars
    /\ UNCHANGED nvars
    /\ UNCHANGED <<held, given, stop_parsing_flags, idx, line_number,
                   last_was_blank, had_errors, cin_state, stdout, log, status,
                   exit_code>>

\* A flag argument with 'h' or an unknown character: parse_arguments returns
\* false, main prints the usage and returns 1.
ParseFlagsFail ==
    /\ pc = "parse"
    /\ \E arg \in FlagArgs :
          /\ IsFlagArg(arg)
          /\ ~ParseFlags(arg, 2, opts).ok
          /\ opts' = ParseFlags(arg, 2, opts).o
    /\ stderr' = Append(stderr, Diagnostic(<<>>, "usage"))
    /\ pc' = "usage"
    /\ exit_code' = 1
    /\ UNCHANGED tvars
    /\ UNCHANGED nvars
    /\ UNCHANGED <<held, given, stop_parsing_flags, files, idx, line_number,
                   last_was_blank, had_errors, cin_state, stdout, log, status>>

\* Anything else is a file name ("-" included, and every argument after "--").
ParseFileName ==
    /\ pc = "parse"
    /\ Len(files) < MaxFiles
    /\ \E arg \in FileArgs :
          /\ ~IsFlagArg(arg)
          /\ files' = Append(files, arg)
    /\ UNCHANGED tvars
    /\ UNCHANGED nvars
    /\ UNCHANGED <<held, pc, opts, given, stop_parsing_flags, idx, line_number,
                   last_was_blank, had_errors, cin_state, stdout, stderr, log,
                   status, exit_code>>

\* End of argv: -b overrides -n, parse_arguments returns true; main reads
\* standard input when no file was named and sets up the stream state.
ParseDone ==
    /\ pc = "parse"
    /\ given' = opts
    /\ opts' = OverrideNumbering(opts)
    /\ stop_parsing_flags' = FALSE
    /\ files' = IF files = <<>> THEN <<StdinName>> ELSE files
    /\ idx' = 1
    /\ line_number' = 1
    /\ last_was_blank' = FALSE
    /\ had_errors' = FALSE
    /\ pc' = "loop"
    /\ UNCHANGED tvars
    /\ UNCHANGED nvars
    /\ UNCHANGED <<held, cin_state, stdout, stderr, log, status, exit_code>>

\* ------------------------------------------------- main: the loop over files
IsStdin(i) == files[i] = StdinName

\* A main that passes over the source after one that failed.
SourceDone_SkipNext(result, failed) ==
    /\ status' = Append(status, result)
    /\ had_errors' = IF failed THEN TRUE ELSE had_errors
    /\ idx' = IF failed THEN idx + 2 ELSE idx + 1
    /\ pc' = "loop"

\* A main that stops at the first source that fails.
SourceDone_AbortOnFailure(result, failed) ==
    /\ status' = Append(status, result)
    /\ had_errors' = IF failed THEN TRUE ELSE had_errors
    /\ idx' = IF failed THEN Len(files) + 1 ELSE idx + 1
    /\ pc' = "loop"

\* A main that assigns had_errors from the last source's result.
SourceDone_Assign(result, failed) ==
    /\ status' = Append(status, result)
    /\ had_errors' = failed
    /\ idx' = idx + 1
    /\ pc' = "loop"

\* What main does when a source is over: record the result, next file.
SourceDone(result, failed) ==
    /\ status' = Append(status, result)
    /\ had_errors' = IF failed THEN TRUE ELSE had_errors
    /\ idx' = idx + 1
    /\ pc' = "loop"

\* A main that starts the stream state afresh after a skipped file.
AccessDenied_ResetState ==
    /\ pc = "loop"
    /\ idx <= Len(files)
    /\ ~IsStdin(idx)
    /\ stderr' = Append(stderr, Diagnostic(files[idx], "access"))
    /\ SourceDone("access", TRUE)
    /\ line_number' = 1
    /\ last_was_blank' = FALSE
    /\ UNCHANGED tvars
    /\ UNCHANGED nvars
    /\ UNCHANGED <<held, opts, given, stop_parsing_flags, files,
                   cin_state, stdout, log, exit_code>>

\* check_file_access returns false (stat fails, a directory, not readable).
AccessDenied ==
    /\ pc = "loop"
    /\ idx <= Len(files)
    /\ ~IsStdin(idx)
    /\ stderr' = Append(stderr, Diagnostic(files[idx], "access"))
    /\ SourceDone("access", TRUE)
    /\ UNCHANGED tvars
    /\ UNCHANGED nvars
    /\ UNCHANGED <<held, opts, given, stop_parsing_flags, files, line_number,
                   last_was_blank, cin_state, stdout, log, exit_code>>

\* "-", or check_file_access returns true: process_file is called.
AccessOk ==
    /\ pc = "loop"
    /\ idx <= Len(files)
    /\ pc' = "open"
    /\ UNCHANGED tvars
    /\ UNCHANGED nvars
    /\ UNCHANGED <<held, opts, given, stop_parsing_flags, files, idx, line_number,
                   last_was_blank, had_errors, cin_state, stdout, stderr, log,
                   status, exit_code>>

\* --------------------------------------------------------- process_file
\* An open failure that is not reported.
OpenFail_Silent ==
    /\ pc = "open"
    /\ ~IsStdin(idx)
    /\ SourceDone("open", TRUE)
    /\ UNCHANGED tvars
    /\ UNCHANGED nvars
    /\ UNCHANGED <<held, opts, given, stop_parsing_flags, files, line_number,
                   last_was_blank, cin_state, stdout, stderr, log, exit_code>>

\* file_stream.open fails: diagnostic, return false.
OpenFail ==
    /\ pc = "open"
    /\ ~IsStdin(idx)
    /\ stderr' = Append(stderr, Diagnostic(files[idx], "open"))
    /\ SourceDone("open", TRUE)
    /\ UNCHANGED tvars
    /\ UNCHANGED nvars
    /\ UNCHANGED <<held, opts, given, stop_parsing_flags, files, line_number,
                   last_was_blank, cin_state, stdout, log, exit_code>>

\* A process_file that forgets the blank line an earlier source ended with.
OpenOk_ResetBlank ==
    /\ pc = "open"
    /\ pc' = "read"
    /\ last_was_blank' = FALSE
    /\ UNCHANGED tvars
    /\ UNCHANGED nvars
    /\ held' = IF IsStdin(idx) THEN held ELSE held \cup {idx}
    /\ UNCHANGED <<opts, given, stop_parsing_flags, files, idx,
                   line_number, had_errors, cin_state, stdout, stderr, log,
                   status, exit_code>>

\* A process_file that counts the lines of each source from 1.
OpenOk_ResetCounter ==
    /\ pc = "open"
    /\ pc' = "read"
    /\ line_number' = 1
    /\ UNCHANGED tvars
    /\ UNCHANGED nvars
    /\ held' = IF IsStdin(idx) THEN held ELSE held \cup {idx}
    /\ UNCHANGED <<opts, given, stop_parsing_flags, files, idx,
                   last_was_blank, had_errors, cin_state, stdout, stderr, log,
                   status, exit_code>>

\* input = &std::cin, or the file is open.
OpenOk ==
    /\ pc = "open"
    /\ pc' = "read"
    /\ UNCHANGED tvars
    /\ UNCHANGED nvars
    /\ held' = IF IsStdin(idx) THEN held ELSE held \cup {idx}
    /\ UNCHANGED <<opts, given, stop_parsing_flags, files, idx, line_number,
                   last_was_blank, had_errors, cin_state, stdout, stderr, log,
                   status, exit_code>>

\* std::getline returns a line: one iteration of the while loop.
ReadLine ==
    /\ pc = "read"
    /\ IsStdin(idx) => cin_state = "good"
    /\ Len(log) < MaxLines
    /\ \E line \in Lines :
          LET r == ProcessLine(opts, [line_number |-> line_number,
                                      last_was_blank |-> last_was_blank], line)
          IN  /\ line_number' = r.line_number
              /\ last_was_blank' = r.last_was_blank
              /\ stdout' = stdout \o r.chunk
              /\ log' = Append(log, [src |-> idx, raw |-> line,
                                     kept |-> r.kept, num |-> r.num])
    /\ UNCHANGED tvars
    /\ UNCHANGED nvars
    /\ UNCHANGED <<held, pc, opts, given, stop_parsing_flags, files, idx, had_errors,
                   cin_state, stderr, status, exit_code>>

\* A process_file that returns false whenever getline stops.
ReadEof_AsFailure ==
    /\ pc = "read"
    /\ IsStdin(idx) => cin_state \in {"good", "eof"}
    /\ cin_state' = IF IsStdin(idx) THEN "eof" ELSE cin_state
    /\ SourceDone("ok", TRUE)
    /\ UNCHANGED tvars
    /\ UNCHANGED nvars
    /\ held' = held \ {idx}
    /\ UNCHANGED <<opts, given, stop_parsing_flags, files, line_number,
                   last_was_blank, stdout, stderr, log, exit_code>>

\* std::getline fails at the end of the source (on std::cin also when an
\* earlier "-" already reached it): input->bad() is false, return true; the
\* local file_stream is destroyed, which closes the file.
ReadEof ==
    /\ pc = "read"
    /\ IsStdin(idx) => cin_state \in {"good", "eof"}
    /\ cin_state' = IF IsStdin(idx) THEN "eof" ELSE cin_state
    /\ SourceDone("ok", FALSE)
    /\ UNCHANGED tvars
    /\ UNCHANGED nvars
    /\ held' = held \ {idx}
    /\ UNCHANGED <<opts, given, stop_parsing_flags, files, line_number,
                   last_was_blank, stdout, stderr, log, exit_code>>

\* A read-error path that returns with the file still open.
ReadError_KeepOpen ==
    /\ pc = "read"
    /\ IsStdin(idx) => cin_state \in {"good", "bad"}
    /\ cin_state' = IF IsStdin(idx) THEN "bad" ELSE cin_state
    /\ stderr' = Append(stderr, Diagnostic(files[idx], "read"))
    /\ SourceDone("read", TRUE)
    /\ UNCHANGED tvars
    /\ UNCHANGED nvars
    /\ UNCHANGED <<held, opts, given, stop_parsing_flags, files, line_number,
                   last_was_blank, stdout, log, exit_code>>

\* std::getline fails with badbit set (on std::cin also when an earlier "-"
\* left it set): diagnostic, return false; file_stream is destroyed.
ReadError ==
    /\ pc = "read"
    /\ IsStdin(idx) => cin_state \in {"good", "bad"}
    /\ cin_state' = IF IsStdin(idx) THEN "bad" ELSE cin_state
    /\ stderr' = Append(stderr, Diagnostic(files[idx], "read"))
    /\ SourceDone("read", TRUE)
    /\ UNCHANGED tvars
    /\ UNCHANGED nvars
    /\ held' = held \ {idx}
    /\ UNCHANGED <<opts, given, stop_parsing_flags, files, line_number,
                   last_was_blank, stdout, log, exit_code>>

\* The loop is over: return had_errors ? 1 : 0.
Exit ==
    /\ pc = "loop"
    /\ idx > Len(files)
    /\ exit_code' = IF had_errors THEN 1 ELSE 0
    /\ pc' = "done"
    /\ UNCHANGED tvars
    /\ UNCHANGED nvars
    /\ UNCHANGED <<held, opts, given, stop_parsing_flags, files, idx, line_number,
                   last_was_blank, had_errors, cin_state, stdout, stderr, log,
                   status>>

Next ==
    \/ ParseDashDash
    \/ ParseFlagsOk
    \/ ParseFlagsFail
    \/ ParseFileName
    \/ ParseDone
    \/ AccessDenied
    \/ AccessOk
    \/ OpenFail
    \/ OpenOk
    \/ ReadLine
    \/ ReadEof
    \/ ReadError
    \/ Exit

Spec == Init /\ [][Next]_vars

\* ------------------------------------------- transform_line on its own
\* The options transform_line reads.
ShowConfigs ==
    {[DefaultOptions EXCEPT !.show_tabs = t, !.show_ends = e] :
        t \in BOOLEAN, e \in BOOLEAN}

NoShow == DefaultOptions

InitT ==
    /\ SInit
    /\ t_pc = "start"
    /\ t_line \in TLines
    /\ t_first \in ShowConfigs
    /\ t_second \in ShowConfigs
    /\ t_once = <<>>
    /\ t_twice = <<>>
    /\ NIdle

TransformOnce ==
    /\ t_pc = "start"
    /\ t_once' = transform_line(t_line, t_first)
    /\ t_pc' = "once"
    /\ UNCHANGED <<t_line, t_first, t_second, t_twice>>
    /\ UNCHANGED svars
    /\ UNCHANGED nvars

TransformTwice ==
    /\ t_pc = "once"
    /\ t_twice' = transform_line(t_once, t_second)
    /\ t_pc' = "twice"
    /\ UNCHANGED <<t_line, t_first, t_second, t_once>>
    /\ UNCHANGED svars
    /\ UNCHANGED nvars

NextT == TransformOnce \/ TransformTwice

SpecT == InitT /\ [][NextT]_vars

\* ------------------------- the loop body from a later point of a run
\* Lines with spaces as well.
NChars == Chars \cup {" "}
NLines == SeqsUpTo(NChars, MaxLineLen)

RECURSIVE Pow10(_)
Pow10(k) == IF k = 0 THEN 1 ELSE 10 * Pow10(k - 1)

\* Values line_number takes in the course of a long run: around each power
\* of ten (all of them below 2^31).
CounterValues ==
    {1} \cup UNION {{Pow10(k) - 1, Pow10(k)} : k \in 1..MaxDigits}

\* The options parse_arguments can return.
ParsedOptions ==
    {o \in [number_lines : BOOLEAN, number_non_blank : BOOLEAN,
             show_ends : BOOLEAN, show_tabs : BOOLEAN, squeeze_blanks : BOOLEAN] :
        OverrideNumbering(o) = o}

\* A stream state a run can be in between two lines: without a numbering
\* option the counter is still 1; under -n a counter of 1 means no line was
\* emitted yet, so last_was_blank is still false.
InitN ==
    /\ SInit
    /\ TIdle
    /\ n_pc = "run"
    /\ n_opts \in ParsedOptions
    /\ n_number \in CounterValues
    /\ n_blank \in BOOLEAN
    /\ (~n_opts.number_lines /\ ~n_opts.number_non_blank) => n_number = 1
    /\ (n_opts.number_lines /\ n_number = 1) => ~n_blank
    /\ n_log = <<>>

\* std::getline returns a line: one iteration of the while loop.
NextLine ==
    /\ n_pc = "run"
    /\ Len(n_log) < MaxNSteps
    /\ \E line \in NLines :
          LET r == ProcessLine(n_opts, [line_number |-> n_number,
                                        last_was_blank |-> n_blank], line)
          IN  /\ n_number' = r.line_number
              /\ n_blank' = r.last_was_blank
              /\ n_log' = Append(n_log, [raw |-> line, kept |-> r.kept,
                                          num |-> r.num, chunk |-> r.chunk,
                                          blank |-> r.last_was_blank])
    /\ UNCHANGED <<n_pc, n_opts>>
    /\ UNCHANGED svars
    /\ UNCHANGED tvars

NextN == NextLine

SpecN == InitN /\ [][NextN]_vars

\* ===================================================== reading the output
\* The lines of std::cout: the characters between the terminators.
RECURSIVE SplitLines(_, _)
SplitLines(s, cur) ==
    IF s = <<>> THEN (IF cur = <<>> THEN <<>> ELSE <<cur>>)
    ELSE IF Head(s) = NL THEN <<cur>> \o SplitLines(Tail(s), <<>>)
    ELSE SplitLines(Tail(s), Append(cur, Head(s)))

OutLines == SplitLines(stdout, <<>>)

\* The lines that were not discarded, in the order they were read.
KeptLog == SelectSeq(log, LAMBDA e : e.kept)

\* A number below 10 as the claims describe it: five spaces, the digit, a space.
Prefix(i) == <<" ", " ", " ", " ", " ", Digit[i + 1], " ">>

StartsWith(s, p) == Len(s) >= Len(p) /\ SubSeq(s, 1, Len(p)) = p

Running == pc \in {"loop", "open", "read", "done"}

\* ================================================================ claims
\* C1: with number_lines set and squeeze_blanks unset, every line read is
\* emitted with a number, and the numbers, in output order across all
\* sources, are 1, 2, ..., N, N the number of lines read.  number_lines is the
\* option process_file reads: set when -n was given and -b was not.
C1_NumberAllContinuous ==
    (Running /\ opts.number_lines /\ ~opts.squeeze_blanks) =>
        /\ given.number_lines /\ ~given.number_non_blank
        /\ Len(OutLines) = Len(log)
        /\ \A i \in 1..Len(log) :
              /\ log[i].kept
              /\ log[i].num = i
              /\ StartsWith(OutLines[i], Prefix(i))
        /\ line_number = Len(log) + 1

C1_Witness ==
    /\ pc = "done"
    /\ opts.number_lines /\ ~opts.squeeze_blanks
    /\ Len(log) = MaxLines
    /\ log[1].src # log[Len(log)].src
    /\ \E i \in 1..Len(log) : log[i].raw = <<>>
    /\ \E i \in 1..Len(status) : status[i] # "ok"

\* C2: with squeeze_blanks set, no two lines adjacent in the output of the run
\* are both blank as read, whatever sources (failed ones included) lie
\* between the two reads.
C2_NoAdjacentBlanks ==
    (Running /\ opts.squeeze_blanks) =>
        /\ Len(OutLines) = Len(KeptLog)
        /\ \A i \in 1..(Len(KeptLog) - 1) :
              ~(KeptLog[i].raw = <<>> /\ KeptLog[i + 1].raw = <<>>)
        /\ (~opts.show_ends /\ ~opts.number_lines) =>
              \A i \in 1..(Len(OutLines) - 1) :
                  ~(OutLines[i] = <<>> /\ OutLines[i + 1] = <<>>)

\* A blank line ends one source, the next source fails, and the source after
\* it starts with a blank line.
C2_Witness ==
    /\ pc = "done"
    /\ opts.squeeze_blanks
    /\ \E i \in 1..Len(log) : \E j \in 1..Len(log) :
          /\ j = i + 1
          /\ log[i].raw = <<>> /\ log[i].kept
          /\ log[j].raw = <<>> /\ ~log[j].kept
          /\ \E k \in 1..Len(status) :
                log[i].src < k /\ k < log[j].src /\ status[k] # "ok"

\* The sources that failed, by position in files.
Failed == {i \in 1..Len(status) : status[i] # "ok"}

\* What the kept line e looks like on std::cout.
Shown(e) ==
    (IF e.num > 0 THEN Prefix(e.num) ELSE <<>>) \o transform_line(e.raw, opts)

\* C3: a source that fails does not stop the run: at the end every source of
\* the list has been gone through, every line read that was not discarded is
\* on the output, and the run reports failure.
C3_FailureDoesNotStop ==
    (pc = "done" /\ Failed # {}) =>
        /\ Len(status) = Len(files)
        /\ \A e \in {log[i] : i \in 1..Len(log)} : e.src \in 1..Len(files) \ Failed
              \/ status[e.src] = "read"
        /\ Len(OutLines) = Len(KeptLog)
        /\ \A i \in 1..Len(KeptLog) : OutLines[i] = Shown(KeptLog[i])
        /\ exit_code = 1

\* The first source fails, and the sources after it still deliver lines.
C3_Witness ==
    /\ pc = "done"
    /\ Len(files) = MaxFiles
    /\ status[1] \in {"access", "open"}
    /\ status[2] = "read"
    /\ status[3] = "ok"
    /\ \E i \in 1..Len(log) : log[i].src = 2
    /\ \E i \in 1..Len(log) : log[i].src = 3

\* C4: the exit status is 1 exactly when a source failed the access check,
\* failed to open or hit a read error, and 0 otherwise; a recorded failure is
\* never cleared.
C4_ExitStatus ==
    /\ [](pc = "done" => exit_code = IF Failed # {} THEN 1 ELSE 0)
    /\ [](Running => (had_errors <=> Failed # {}))
    /\ [][had_errors => had_errors']_vars

\* A failed source followed by one that is read to its end.
C4_Witness ==
    /\ pc = "done"
    /\ exit_code = 1
    /\ \E i \in 1..Len(status) : \E j \in 1..Len(status) :
          i < j /\ status[i] # "ok" /\ status[j] = "ok"

\* The run of process_file's loop body over the lines read, from the stream
\* state main starts with.
RECURSIVE RunOver(_, _, _)
RunOver(o, st, ls) ==
    IF ls = <<>> THEN st
    ELSE LET r == ProcessLine(o, st, Head(ls))
         IN  RunOver(o, [line_number |-> r.line_number,
                         last_was_blank |-> r.last_was_blank,
                         out |-> st.out \o r.chunk], Tail(ls))

RawLines == [i \in 1..Len(log) |-> log[i].raw]

StartState == [line_number |-> 1, last_was_blank |-> FALSE, out |-> <<>>]

\* What parse_arguments yields for the same command line without -n.
WithoutN == OverrideNumbering([given EXCEPT !.number_lines = FALSE])

\* C5: a run given both -b and -n has, on the same input, the output, the
\* stream state and the status of the run given -b alone, and numbers no
\* blank line.
C5_BothIsNonBlankAlone ==
    (Running /\ given.number_lines /\ given.number_non_blank) =>
        LET alone == RunOver(WithoutN, StartState, RawLines)
        IN  /\ stdout = alone.out
            /\ line_number = alone.line_number
            /\ last_was_blank = alone.last_was_blank
            /\ \A i \in 1..Len(log) : log[i].raw = <<>> => log[i].num = 0
            /\ pc = "done" => exit_code = IF Failed # {} THEN 1 ELSE 0

C5_Witness ==
    /\ pc = "done"
    /\ given.number_lines /\ given.number_non_blank
    /\ given.show_ends
    /\ \E i \in 1..Len(log) : log[i].raw = <<>> /\ log[i].kept
    /\ \E i \in 1..Len(log) : log[i].num = 2

\* ---------------------------------------------- the claims' transform
\* Tabs among the first i - 1 characters of the line.
TabsBefore(line, i) == Cardinality({j \in 1..(i - 1) : line[j] = TAB})

\* Where character i of the line starts in the line with its tabs shown.
ShownAt(line, i) == i + TabsBefore(line, i)

\* Each tab replaced in place by '^','I', every other character kept where
\* it was relative to the others.
TabsShown(line) ==
    [k \in 1..(Len(line) + TabsBefore(line, Len(line) + 1)) |->
        LET i == CHOOSE i \in 1..Len(line) :
                    /\ ShownAt(line, i) <= k
                    /\ k <= ShownAt(line, i) + (IF line[i] = TAB THEN 1 ELSE 0)
        IN  IF line[i] # TAB THEN line[i]
            ELSE IF k = ShownAt(line, i) THEN "^" ELSE "I"]

Reference(line, o) ==
    (IF o.show_tabs THEN TabsShown(line) ELSE line)
        \o (IF o.show_ends THEN <<"$">> ELSE <<>>)

HasTab(line) == \E i \in 1..Len(line) : line[i] = TAB

C7_IdentityThenTransform ==
    (t_pc = "twice" /\ t_first = NoShow) =>
        /\ t_once = t_line
        /\ t_twice = transform_line(t_line, t_second)

C7_Witness ==
    /\ t_pc = "twice"
    /\ t_first = NoShow
    /\ t_second.show_tabs /\ t_second.show_ends
    /\ HasTab(t_line)
    /\ Len(t_twice) = MaxTLen + 2

\* The raw lines read, each followed by one terminator.
RECURSIVE Terminated(_)
Terminated(ls) ==
    IF ls = <<>> THEN <<>> ELSE Head(ls) \o <<NL>> \o Terminated(Tail(ls))

\* C8: the sources are gone through in the order of the list, one result per
\* source, and no line of a later source comes before a line of an earlier
\* one; with no option set the output is the lines read, in that order, each
\* followed by one terminator.
C8_SourceOrder ==
    Running =>
        /\ idx = Len(status) + 1
        /\ Len(status) <= Len(files)
        /\ \A i \in 1..Len(log) :
              /\ log[i].src <= idx
              /\ log[i].src \in 1..Len(files)
              /\ pc \in {"loop", "open", "done"} => log[i].src < idx
              /\ log[i].src <= Len(status) => status[log[i].src] \in {"ok", "read"}
              /\ \A j \in 1..Len(log) : i < j => log[i].src <= log[j].src
        /\ pc = "done" => Len(status) = Len(files)
        /\ opts = DefaultOptions => stdout = Terminated(RawLines)

\* Lines of two sources on the output of a run with no option, a failed
\* source between them.
C8_Witness ==
    /\ pc = "done"
    /\ opts = DefaultOptions
    /\ Len(files) = MaxFiles
    /\ status[2] # "ok"
    /\ \E i \in 1..Len(log) : log[i].src = 1 /\ log[i].raw # <<>>
    /\ \E i \in 1..Len(log) : log[i].src = 3 /\ log[i].raw = <<>>

\* The line read last before line i that was not discarded was blank.
PreviousKeptBlank(i) ==
    \E j \in 1..(i - 1) :
        /\ log[j].kept
        /\ log[j].raw = <<>>
        /\ \A k \in (j + 1)..(i - 1) : ~log[k].kept

\* C9: a line is discarded exactly when squeeze_blanks is set, the line is
\* blank and the last line of the run that was not discarded was blank; the
\* first line and non-blank lines are never discarded, and without
\* squeeze_blanks as many lines are emitted as were read.
C9_DiscardedIff ==
    Running =>
        /\ \A i \in 1..Len(log) :
              ~log[i].kept <=>
                  (opts.squeeze_blanks /\ log[i].raw = <<>> /\ PreviousKeptBlank(i))
        /\ Len(log) > 0 => log[1].kept
        /\ \A i \in 1..Len(log) : log[i].raw # <<>> => log[i].kept
        /\ Len(OutLines) = Len(KeptLog)
        /\ ~opts.squeeze_blanks => Len(OutLines) = Len(log)

\* Blank lines kept and blank lines discarded in one run, the discarded one
\* in a later source than the blank line before it.
C9_Witness ==
    /\ pc = "done"
    /\ opts.squeeze_blanks
    /\ Len(log) = MaxLines
    /\ log[1].raw = <<>> /\ log[1].kept
    /\ ~log[2].kept /\ ~log[3].kept
    /\ log[1].src < log[3].src

\* Non-blank lines among the first i lines that were not discarded.
NonBlankUpTo(i) == Cardinality({j \in 1..i : KeptLog[j].raw # <<>>})

\* C10: with number_non_blank set a line on the output carries a number
\* exactly when it is not blank, blank lines leave the counter alone, and the
\* numbers are 1..K in output order, K the non-blank lines emitted; with
\* neither numbering option set no line carries a number and line_number
\* stays 1.
C10_NumberNonBlank ==
    Running =>
        /\ opts.number_non_blank =>
              /\ \A i \in 1..Len(KeptLog) :
                    /\ KeptLog[i].num > 0 <=> KeptLog[i].raw # <<>>
                    /\ KeptLog[i].raw # <<>> =>
                          /\ KeptLog[i].num = NonBlankUpTo(i)
                          /\ OutLines[i] = Prefix(NonBlankUpTo(i))
                                               \o transform_line(KeptLog[i].raw, opts)
                    /\ KeptLog[i].raw = <<>> =>
                          OutLines[i] = transform_line(<<>>, opts)
              /\ line_number = NonBlankUpTo(Len(KeptLog)) + 1
        /\ (~opts.number_non_blank /\ ~opts.number_lines) =>
              /\ \A i \in 1..Len(KeptLog) :
                    /\ KeptLog[i].num = 0
                    /\ OutLines[i] = transform_line(KeptLog[i].raw, opts)
              /\ line_number = 1

\* Non-blank, blank, non-blank over two sources: numbers 1 and 2.
C10_Witness ==
    /\ pc = "done"
    /\ opts.number_non_blank
    /\ Len(log) = MaxLines
    /\ log[1].raw # <<>> /\ log[2].raw = <<>> /\ log[3].raw # <<>>
    /\ log[2].kept
    /\ log[3].num = 2
    /\ log[1].src # log[3].src

\* The step reads a line and the squeeze test drops it.
DiscardStep ==
    /\ Len(log') = Len(log) + 1
    /\ ~log'[Len(log')].kept

\* C11: a line discarded by squeezing writes nothing and leaves line_number
\* and last_was_blank as they were; so with number_lines and squeeze_blanks
\* both set the numbers on the emitted lines are 1..M, M the lines emitted.
C11_DiscardWritesNothing ==
    /\ [][DiscardStep =>
            /\ stdout' = stdout
            /\ line_number' = line_number
            /\ last_was_blank' = last_was_blank
            /\ last_was_blank]_vars
    /\ []((Running /\ opts.number_lines /\ opts.squeeze_blanks) =>
            /\ Len(OutLines) = Len(KeptLog)
            /\ \A i \in 1..Len(KeptLog) :
                  /\ KeptLog[i].num = i
                  /\ StartsWith(OutLines[i], Prefix(i))
            /\ line_number = Len(KeptLog) + 1)

\* Blank, blank (discarded), non-blank with -n -s: numbers 1 and 2.
C11_Witness ==
    /\ pc = "done"
    /\ opts.number_lines /\ opts.squeeze_blanks
    /\ Len(log) = MaxLines
    /\ log[1].kept /\ log[1].num = 1
    /\ ~log[2].kept
    /\ log[Len(log)].raw # <<>> /\ log[Len(log)].num = Len(KeptLog)
    /\ Len(KeptLog) < Len(log)

\* C12: the file of a source is closed when process_file returns, on every
\* path, before main turns to the next source; at most one file is open at
\* any time.
C12_OneSourceHeld ==
    /\ Cardinality(held) <= 1
    /\ pc \in {"parse", "usage", "loop", "open", "done"} => held = {}
    /\ pc = "read" => held = (IF IsStdin(idx) THEN {} ELSE {idx})

\* The third source is open after one source ended cleanly with a line
\* discarded and one ended with a read error.
C12_Witness ==
    /\ pc = "read"
    /\ held = {MaxFiles}
    /\ Len(status) = MaxFiles - 1
    /\ \E i \in 1..Len(status) : status[i] = "ok"
    /\ \E i \in 1..Len(status) : status[i] = "read"
    /\ \E i \in 1..Len(log) : ~log[i].kept

\* The step ends the current source with the given result.
SourceEnds(results) ==
    /\ Len(status') = Len(status) + 1
    /\ status'[Len(status')] \in results

StreamUnchanged ==
    /\ stdout' = stdout
    /\ log' = log
    /\ line_number' = line_number
    /\ last_was_blank' = last_was_blank

\* The stream state and the output are those of the loop body run over the
\* lines read so far, whatever sources failed in between.
StateFollowsLines ==
    LET r == RunOver(opts, StartState, RawLines)
    IN  /\ line_number = r.line_number
        /\ last_was_blank = r.last_was_blank
        /\ stdout = r.out

\* C13: a source that fails the access check is never opened; a source that
\* fails the access check or fails to open writes no line and leaves
\* line_number and last_was_blank as they were, so the next source goes on
\* from the state the last line read left.
C13_FailedAcquisitionFrame ==
    /\ [][SourceEnds({"access", "open"}) =>
            StreamUnchanged /\ held = {} /\ held' = {}]_vars
    /\ [][SourceEnds({"access"}) => pc = "loop"]_vars
    /\ [](Running =>
            /\ \A i \in 1..Len(log) :
                  log[i].src <= Len(status) =>
                      status[log[i].src] \notin {"access", "open"}
            /\ StateFollowsLines)

\* Numbering goes on over a skipped file and over one that did not open.
C13_Witness ==
    /\ pc = "done"
    /\ opts.number_lines /\ opts.squeeze_blanks
    /\ Len(status) = MaxFiles
    /\ status[1] = "ok" /\ status[2] \in {"access", "open"} /\ status[3] = "ok"
    /\ \E i \in 1..Len(log) : log[i].src = 1 /\ log[i].raw = <<>> /\ log[i].num = 1
    /\ \E i \in 1..Len(log) : log[i].src = 3 /\ ~log[i].kept
    /\ \E i \in 1..Len(log) : log[i].src = 3 /\ log[i].num = 2

\* C14: at a read error the lines read before it are on the output and their
\* effect on line_number and last_was_blank stays; the source is recorded as
\* failed when reading has stopped, and the next source goes on from that
\* state.  A clean end of a source is not recorded as a failure.
C14_ReadErrorKeepsLines ==
    /\ [][SourceEnds({"read"}) =>
            StreamUnchanged /\ pc = "read" /\ had_errors']_vars
    /\ [][SourceEnds({"ok"}) =>
            StreamUnchanged /\ had_errors' = had_errors /\ stderr' = stderr]_vars
    /\ [](pc = "read" => Len(status) = idx - 1)
    /\ [](Running => (StateFollowsLines /\ (had_errors <=> Failed # {})))

\* A source gives a line and then a read error; the next source is numbered on.
C14_Witness ==
    /\ pc = "done"
    /\ opts.number_lines
    /\ Len(status) >= 2
    /\ status[1] = "read" /\ status[2] = "ok"
    /\ \E i \in 1..Len(log) : log[i].src = 1 /\ log[i].num = 1
    /\ \E i \in 1..Len(log) : log[i].src = 2 /\ log[i].num = 2
    /\ Len(OutLines) = Len(log)

\* C15: last_was_blank is true exactly when a line has been emitted and the
\* line emitted last was blank, with or without squeeze_blanks, across
\* source boundaries; it starts false.
C15_LastWasBlank ==
    /\ pc = "parse" => ~last_was_blank
    /\ Running =>
          (last_was_blank <=>
              (Len(KeptLog) > 0 /\ KeptLog[Len(KeptLog)].raw = <<>>))

\* Without -s: a blank line ended an earlier source and the flag is still
\* set while a later source is read, after a non-blank line had cleared it.
C15_Witness ==
    /\ pc = "read"
    /\ ~opts.squeeze_blanks
    /\ last_was_blank
    /\ Len(log) >= 2
    /\ log[Len(log) - 1].raw # <<>>
    /\ log[Len(log)].src < idx

\* Numbers emitted so far.
NumbersEmitted == Cardinality({i \in 1..Len(log) : log[i].num > 0})

\* C16: line_number is 1 plus the count of numbers emitted: it starts at 1,
\* goes up by one with each number emitted and changes in no other way.
C16_CounterIsOnePlusNumbers ==
    /\ [](line_number = 1 + NumbersEmitted /\ line_number >= 1)
    /\ [][\/ line_number' = line_number /\ NumbersEmitted' = NumbersEmitted
          \/ /\ line_number' = line_number + 1
             /\ NumbersEmitted' = NumbersEmitted + 1
             /\ log'[Len(log')].num = line_number
             /\ stdout' = stdout \o NumberField(line_number)
                              \o transform_line(log'[Len(log')].raw, opts) \o <<NL>>]_vars

\* Under -b a blank line between two non-blank ones: the counter is 3 after
\* three lines emitted.
C16_Witness ==
    /\ pc = "done"
    /\ opts.number_non_blank
    /\ Len(KeptLog) = MaxLines
    /\ NumbersEmitted = 2
    /\ line_number = 3
    /\ log[1].src # log[Len(log)].src

\* The positions of the failed sources, in order.
FailedSeq ==
    SelectSeq([i \in 1..Len(status) |-> i], LAMBDA i : status[i] # "ok")

\* C18: each source that fails (access check, open, read error) puts one
\* diagnostic with its name on std::cerr and a source that does not fail puts
\* none: the diagnostics are those of the failed sources, in order, and the
\* run ends in failure exactly when there is at least one.
C18_OneDiagnosticPerFailure ==
    Running =>
        /\ Len(stderr) = Cardinality(Failed)
        /\ Len(stderr) = Len(FailedSeq)
        /\ \A k \in 1..Len(FailedSeq) :
              stderr[k] = [src |-> files[FailedSeq[k]], msg |-> status[FailedSeq[k]]]
        /\ pc = "done" => (exit_code = 1 <=> Len(stderr) > 0)

\* Three sources: one is read to its end, two fail in different ways.
C18_Witness ==
    /\ pc = "done"
    /\ Len(status) = MaxFiles
    /\ Len(stderr) = 2
    /\ stderr[1].msg # stderr[2].msg
    /\ stderr[1].src # stderr[2].src
    /\ \E i \in 1..Len(status) : status[i] = "ok" /\ \E j \in 1..Len(log) : log[j].src = i

UsageShown == \E i \in 1..Len(stderr) : stderr[i].msg = "usage"

\* C20: when parse_arguments returns false ('h' or an unknown option
\* character in a flag argument before any "--"), main returns 1 and no
\* source is opened or read and nothing is written to std::cout, file names
\* given before the flag included.
C20_UsageExitsAtOnce ==
    /\ []((pc = "usage" \/ UsageShown) =>
            /\ pc = "usage"
            /\ exit_code = 1
            /\ ~stop_parsing_flags
            /\ stdout = <<>>
            /\ log = <<>>
            /\ status = <<>>
            /\ held = {})
    /\ [][pc # "usage"]_vars

\* File names and options were given before the offending flag.
C20_Witness ==
    /\ pc = "usage"
    /\ exit_code = 1
    /\ Len(files) = MaxFiles
    /\ \E i \in 1..Len(files) : files[i] = StdinName
    /\ \E i \in 1..Len(files) : files[i] # StdinName
    /\ opts.number_lines /\ opts.squeeze_blanks

WhitespaceOnly(line) ==
    Len(line) > 0 /\ \A i \in 1..Len(line) : line[i] \in {" ", TAB}

\* C17: a line is blank when its length as read is zero; a line of spaces
\* and tabs only is not blank: it is numbered under number_non_blank, is not
\* discarded by squeezing, sets last_was_blank to false, and a blank line
\* right after it is emitted.
C17_BlankIsZeroLength ==
    (n_pc = "run") =>
        \A i \in 1..Len(n_log) :
            LET e == n_log[i]
            IN  /\ WhitespaceOnly(e.raw) =>
                      /\ e.kept
                      /\ ~e.blank
                      /\ n_opts.number_non_blank => e.num > 0
                      /\ i < Len(n_log) => n_log[i + 1].kept
                /\ (e.raw = <<>> /\ e.kept) =>
                      /\ e.blank
                      /\ n_opts.number_non_blank => e.num = 0
                /\ e.raw # <<>> => e.kept /\ ~e.blank

\* Under -b -s -T a tab-only line is numbered and the blank line after it
\* is emitted.
C17_Witness ==
    /\ n_pc = "run"
    /\ n_opts.squeeze_blanks /\ n_opts.number_non_blank /\ n_opts.show_tabs
    /\ Len(n_log) = 2
    /\ n_log[1].raw = <<TAB>> /\ n_log[1].num > 0
    /\ n_log[2].raw = <<>> /\ n_log[2].kept

\* The number of decimal digits of n.
DigitCount(n) ==
    CHOOSE d \in 1..(MaxDigits + 1) :
        Pow10(d - 1) <= n /\ (d = MaxDigits + 1 \/ n < Pow10(d))

IsDigit(c) == \E v \in 1..10 : Digit[v] = c

DigitValue(c) == (CHOOSE v \in 1..10 : Digit[v] = c) - 1

\* The number a sequence of digits reads as.
RECURSIVE ValueOf(_)
ValueOf(s) ==
    IF s = <<>> THEN 0
    ELSE 10 * ValueOf(SubSeq(s, 1, Len(s) - 1)) + DigitValue(s[Len(s)])

\* C19: a number is written before the transformed line as its decimal
\* digits, right-justified with spaces to at least 6 characters, then one
\* space: 6 - d spaces, d digits and a space for d <= 6, and all d digits and
\* a space for d > 6.
C19_NumberFormat ==
    (n_pc = "run") =>
        \A i \in 1..Len(n_log) :
            LET e == n_log[i]
                text == transform_line(e.raw, n_opts)
                d == DigitCount(e.num)
                w == IF d <= 6 THEN 7 ELSE d + 1
            IN  /\ (e.kept /\ e.num = 0) => e.chunk = text \o <<NL>>
                /\ e.num > 0 =>
                      /\ Len(e.chunk) = w + Len(text) + 1
                      /\ SubSeq(e.chunk, w + 1, w + Len(text)) = text
                      /\ e.chunk[Len(e.chunk)] = NL
                      /\ e.chunk[w] = " "
                      /\ \A k \in 1..(w - 1 - d) : e.chunk[k] = " "
                      /\ \A k \in (w - d)..(w - 1) : IsDigit(e.chunk[k])
                      /\ e.chunk[w - d] # "0"
                      /\ ValueOf(SubSeq(e.chunk, w - d, w - 1)) = e.num

\* 999999 fills the field, 1000000 is one character wider.
C19_Witness ==
    /\ n_pc = "run"
    /\ Len(n_log) = 2
    /\ n_log[1].num = 999999
    /\ n_log[2].num = 1000000
    /\ n_opts.show_ends
    /\ n_log[2].raw = <<"a">>
    /\ n_log[2].chunk = <<"1", "0", "0", "0", "0", "0", "0", " ", "a", "$", NL>>

====
